---- MODULE Spec2Model ----
(***************************************************************************)
(* Model of the RAG service of task4/main.js: sentence chunking, batched   *)
(* embedding, identity-keyed index writes and the three HTTP handlers      *)
(* (/upload, /prompt, /rechunk).                                           *)
(*                                                                         *)
(* Strings of the program are sequences of one-character strings, so that  *)
(* length, slicing, trimming and concatenation are computed, not assumed.  *)
(***************************************************************************)
EXTENDS Integers, Naturals, Sequences, FiniteSets, TLC

----------------------------------------------------------------------------
(* Bounds of the model                                                     *)

\* longest text given to chunkText in the chunking specification
MaxTextLen == 6
\* largest chunk size given to chunkText in the chunking specification
MaxSize == 4

----------------------------------------------------------------------------
(* Strings                                                                 *)

\* absent values: a string that is undefined or null, a number that is
\* absent or NaN, a vector that is null.  They are values no text, no
\* number of the model and no computed vector is equal to
NULL == "null"
Undefined == <<"undefined">>
NaN == 0 - 1
NullVector == <<0 - 1>>

\* characters matched by \s in the texts of the model
WhiteSpace == {" ", "\t", "\n"}
\* characters matched by [.!?] in the texts of the model
SentenceEnd == {".", "!", "?"}
\* characters texts are drawn from
Alphabet == {"a", ".", " ", "\t"}

\* String.prototype.slice(from) for a 1-based first kept position
Drop(s, n) == SubSeq(s, n + 1, Len(s))
Take(s, n) == SubSeq(s, 1, n)

RECURSIVE TrimStart(_)
TrimStart(s) ==
  IF s # << >> /\ Head(s) \in WhiteSpace THEN TrimStart(Tail(s)) ELSE s

RECURSIVE TrimEnd(_)
TrimEnd(s) ==
  IF s # << >> /\ s[Len(s)] \in WhiteSpace THEN TrimEnd(Take(s, Len(s) - 1)) ELSE s

\* String.prototype.trim
Trim(s) == TrimEnd(TrimStart(s))

\* s.slice(-n) for n > 0: the last n characters, the whole string if shorter
SliceLast(s, n) == IF Len(s) <= n THEN s ELSE Drop(s, Len(s) - n)

\* text.replace(/\s+/g, " "): every maximal whitespace run becomes one space
RECURSIVE NormalizeWs(_)
NormalizeWs(s) ==
  IF s = << >> THEN << >>
  ELSE IF Head(s) \in WhiteSpace
       THEN <<" ">> \o NormalizeWs(TrimStart(s))
       ELSE <<Head(s)>> \o NormalizeWs(Tail(s))

\* s.split(/(?<=[.!?])\s+/): cut at every whitespace run that follows a
\* sentence-ending character; acc is the piece being read
RECURSIVE SplitFrom(_, _)
SplitFrom(s, acc) ==
  IF s = << >> THEN <<acc>>
  ELSE IF Head(s) \in WhiteSpace /\ acc # << >> /\ acc[Len(acc)] \in SentenceEnd
       THEN <<acc>> \o SplitFrom(TrimStart(s), << >>)
       ELSE SplitFrom(Tail(s), Append(acc, Head(s)))

SplitSentences(s) == SplitFrom(s, << >>)

\* the sentences chunkText iterates over
Sentences(text) == SplitSentences(NormalizeWs(text))

----------------------------------------------------------------------------
(* chunkText                                                               *)

\* one iteration of the for-loop, the seed taken without .trim()
ChunkIter_rawSeed(st, sentence, size, overlap) ==
  LET over    == Len(st.cur \o sentence) > size
      pushed  == IF over /\ Trim(st.cur) # << >>
                 THEN Append(st.chunks, Trim(st.cur)) ELSE st.chunks
      seed    == IF ~over THEN st.cur
                 ELSE IF overlap > 0 /\ Len(pushed) > 0
                      THEN SliceLast(st.cur, overlap)
                      ELSE << >>
  IN  [chunks |-> pushed, cur |-> seed \o sentence \o <<" ">>]

\* one iteration of the for-loop of chunkText on the pair
\* [chunks, cur] (the chunks pushed so far and currentChunk)
ChunkIter(st, sentence, size, overlap) ==
  LET over    == Len(st.cur \o sentence) > size
      pushed  == IF over /\ Trim(st.cur) # << >>
                 THEN Append(st.chunks, Trim(st.cur)) ELSE st.chunks
      seed    == IF ~over THEN st.cur
                 ELSE IF overlap > 0 /\ Len(pushed) > 0
                      THEN Trim(SliceLast(st.cur, overlap))
                      ELSE << >>
  IN  [chunks |-> pushed, cur |-> seed \o sentence \o <<" ">>]

\* the flush after the loop, without the push of the last buffer
ChunkFlush_dropping(st) == st.chunks

\* the flush after the loop
ChunkFlush(st) ==
  IF Trim(st.cur) # << >> THEN Append(st.chunks, Trim(st.cur)) ELSE st.chunks

RECURSIVE ChunkLoop(_, _, _, _)
ChunkLoop(st, sentences, size, overlap) ==
  IF sentences = << >> THEN st
  ELSE ChunkLoop(ChunkIter(st, Head(sentences), size, overlap),
                 Tail(sentences), size, overlap)

chunkText(text, size, overlap) ==
  ChunkFlush(ChunkLoop([chunks |-> << >>, cur |-> << >>],
                       Sentences(text), size, overlap))

----------------------------------------------------------------------------
(* Configuration and inputs                                                *)

\* process.env.CHUNK_LENGTH / CHUNK_OVERLAP the service is started with
\* (NaN: the variable is not set)
Envs == {[CHUNK_LENGTH |-> NaN, CHUNK_OVERLAP |-> NaN],
         [CHUNK_LENGTH |-> 4, CHUNK_OVERLAP |-> 2]}

DEFAULT_CHUNK_LENGTH == 500
DEFAULT_CHUNK_OVERLAP == 50
EMBED_BATCH_SIZE == 16
N_RESULTS == 5
MODEL_TAG == "all-MiniLM-L6-v2"

\* const CHUNK_LENGTH = parseInt(process.env.CHUNK_LENGTH || "500")
CHUNK_LENGTH(e) == IF e.CHUNK_LENGTH = NaN THEN DEFAULT_CHUNK_LENGTH ELSE e.CHUNK_LENGTH
\* const CHUNK_OVERLAP = parseInt(process.env.CHUNK_OVERLAP || "50")
CHUNK_OVERLAP(e) == IF e.CHUNK_OVERLAP = NaN THEN DEFAULT_CHUNK_OVERLAP ELSE e.CHUNK_OVERLAP

\* a || b || c on numbers-or-absent: the first operand that is a non-zero
\* number (parseInt of an absent field is NaN, which is falsy like 0)
Truthy(n) == n # NaN /\ n # 0
OrElse(a, b, c) == IF Truthy(a) THEN a ELSE IF Truthy(b) THEN b ELSE c

\* the chunk parameters of POST /rechunk
rechunkLength(body, e) == OrElse(body.chunkLength, e.CHUNK_LENGTH, DEFAULT_CHUNK_LENGTH)
rechunkOverlap(body, e) == OrElse(body.chunkOverlap, e.CHUNK_OVERLAP, DEFAULT_CHUNK_OVERLAP)

\* file names and categories of the model
NameMd  == <<"a", ".", "m", "d">>
NamePdf == <<"b", ".", "p", "d", "f">>
FileNames == {NameMd, NamePdf}
FileOrder == <<NameMd, NamePdf>>
CatX == <<"x">>
CatY == <<"y">>
\* a category of one space: a directory name the file system accepts
CatBlank == <<" ">>
Categories == {CatX}
\* the categories in the order readdir lists their directories
CategoryOrder == <<CatBlank, CatX>>

\* file contents of the model: what the file holds as text
TextAB == <<"a", ".", " ", "b", ".">>
Contents == {<< >>, <<" ">>, TextAB}

\* path.extname: from the last "." on, empty when there is none or the name
\* starts with its only "."
RECURSIVE LastDot(_, _)
LastDot(name, n) ==
  IF n = 0 THEN 0 ELSE IF name[n] = "." THEN n ELSE LastDot(name, n - 1)

extname(name) ==
  LET d == LastDot(name, Len(name))
  IN  IF d <= 1 THEN << >> ELSE Drop(name, d - 1)

ExtTxt  == <<".", "t", "x", "t">>
ExtMd   == <<".", "m", "d">>
ExtPdf  == <<".", "p", "d", "f">>
ExtDocx == <<".", "d", "o", "c", "x">>

\* readFileContent on a file whose stored text is data
readFileContent(name, data) ==
  LET ext == extname(name)
  IN  IF ext \in {ExtTxt, ExtMd} THEN data
      ELSE IF ext \in {ExtPdf, ExtDocx}
           THEN IF data = << >> \/ Trim(data) = << >> THEN << >> ELSE data
           ELSE << >>

\* a loader that does not skip the files without text
RECURSIVE loadFiles_keepingBlank(_, _, _)
loadFiles_keepingBlank(corp, cat, names) ==
  IF names = << >> THEN << >>
  ELSE LET name == Head(names)
           text == IF <<cat, name>> \in DOMAIN corp
                   THEN readFileContent(name, corp[<<cat, name>>]) ELSE << >>
           rest == loadFiles_keepingBlank(corp, cat, Tail(names))
       IN  IF <<cat, name>> \notin DOMAIN corp
           THEN rest
           ELSE <<[filename |-> name, category |-> cat, content |-> text]>> \o rest

\* loadAllDocumentsWithCategory on the corpus (a function from
\* <<category, filename>> to the stored text), in directory order
RECURSIVE loadFiles(_, _, _)
loadFiles(corp, cat, names) ==
  IF names = << >> THEN << >>
  ELSE LET name == Head(names)
           text == IF <<cat, name>> \in DOMAIN corp
                   THEN readFileContent(name, corp[<<cat, name>>]) ELSE << >>
           rest == loadFiles(corp, cat, Tail(names))
       IN  IF <<cat, name>> \notin DOMAIN corp \/ text = << >> \/ Trim(text) = << >>
           THEN rest
           ELSE <<[filename |-> name, category |-> cat, content |-> text]>> \o rest

RECURSIVE loadDirs(_, _)
loadDirs(corp, cats) ==
  IF cats = << >> THEN << >>
  ELSE loadFiles(corp, Head(cats), FileOrder) \o loadDirs(corp, Tail(cats))

loadAllDocumentsWithCategory(corp) == loadDirs(corp, CategoryOrder)

\* the chunk objects of one document
docChunks(doc, size, overlap) ==
  LET chunks == chunkText(doc.content, size, overlap)
  IN  [j \in 1..Len(chunks) |->
         [filename |-> doc.filename, category |-> doc.category,
          chunkIndex |-> j - 1, content |-> chunks[j]]]

RECURSIVE chunkAllDocuments(_, _, _)
chunkAllDocuments(documents, size, overlap) ==
  IF documents = << >> THEN << >>
  ELSE docChunks(Head(documents), size, overlap)
       \o chunkAllDocuments(Tail(documents), size, overlap)

----------------------------------------------------------------------------
(* Embedding                                                               *)

\* what one call of the embedder does: a tensor with data, an exception,
\* a result without ort_tensor, a tensor with zero-length data
EmbedOutcomes == {"ok", "error", "notensor", "empty"}

\* the vector the provider computes for a text (its numerics are outside
\* the program; the model keeps one component that depends on the text)
Vector(text) == <<Len(text)>>

\* an embedChunk that does not check that a tensor came back
embedChunk_noTensorCheck(text, outcome) ==
  IF outcome = "error" THEN NullVector
  ELSE IF outcome = "empty" THEN << >>
  ELSE Vector(text)

embedChunk(text, outcome) ==
  IF outcome \in {"error", "notensor"} THEN NullVector
  ELSE IF outcome = "empty" THEN << >>
  ELSE Vector(text)

\* vectors.forEach of embedAllChunks: the chunks of a batch whose vector is
\* truthy, each with its vector (an empty array is truthy)
RECURSIVE collectEmbedded(_, _)
collectEmbedded(batch, vectors) ==
  IF batch = << >> THEN << >>
  ELSE LET rest == collectEmbedded(Tail(batch), Tail(vectors))
       IN  IF Head(vectors) = NullVector THEN rest
           ELSE <<[filename |-> Head(batch).filename,
                   category |-> Head(batch).category,
                   chunkIndex |-> Head(batch).chunkIndex,
                   content |-> Head(batch).content,
                   embedding |-> Head(vectors)]>> \o rest

\* chunks.slice(i, i + EMBED_BATCH_SIZE) for a 0-based i
batchOf(chunks, i) ==
  SubSeq(chunks, i + 1, IF i + EMBED_BATCH_SIZE < Len(chunks)
                        THEN i + EMBED_BATCH_SIZE ELSE Len(chunks))

----------------------------------------------------------------------------
(* Identities and the index write                                          *)

Digits == <<"0", "1", "2", "3", "4", "5", "6", "7", "8", "9">>

\* String(n) for a non-negative integer
RECURSIVE ToStr(_)
ToStr(n) == IF n < 10 THEN <<Digits[n + 1]>> ELSE ToStr(n \div 10) \o <<Digits[(n % 10) + 1]>>

\* makeChunkId: the SHA-1 digest of `${filename}|${category}|${chunkIndex}`;
\* the digest is kept as its preimage (the hash is taken as collision-free)
makeChunkId(chunk) ==
  chunk.filename \o <<"|">> \o chunk.category \o <<"|">> \o ToStr(chunk.chunkIndex)

\* the for-loop of saveToChroma without its continue: every embedded chunk
\* goes into the arrays
RECURSIVE saveArrays_unfiltered(_)
saveArrays_unfiltered(embeddedChunks) ==
  IF embeddedChunks = << >>
  THEN [ids |-> << >>, embeddings |-> << >>, documents |-> << >>, metadatas |-> << >>]
  ELSE LET chunk == Head(embeddedChunks)
           rest  == saveArrays_unfiltered(Tail(embeddedChunks))
       IN  [ids        |-> <<makeChunkId(chunk)>> \o rest.ids,
            embeddings |-> <<chunk.embedding>> \o rest.embeddings,
            documents  |-> <<chunk.content>> \o rest.documents,
            metadatas  |-> <<[filename |-> chunk.filename,
                              category |-> chunk.category,
                              chunkIndex |-> chunk.chunkIndex,
                              model |-> MODEL_TAG]>> \o rest.metadatas]

\* the for-loop of saveToChroma: the four parallel arrays built from the
\* embedded chunks that carry a non-empty embedding
RECURSIVE saveArrays(_)
saveArrays(embeddedChunks) ==
  IF embeddedChunks = << >>
  THEN [ids |-> << >>, embeddings |-> << >>, documents |-> << >>, metadatas |-> << >>]
  ELSE LET chunk == Head(embeddedChunks)
           rest  == saveArrays(Tail(embeddedChunks))
       IN  IF chunk.embedding = NullVector \/ Len(chunk.embedding) = 0 THEN rest
           ELSE [ids        |-> <<makeChunkId(chunk)>> \o rest.ids,
                 embeddings |-> <<chunk.embedding>> \o rest.embeddings,
                 documents  |-> <<chunk.content>> \o rest.documents,
                 metadatas  |-> <<[filename |-> chunk.filename,
                                   category |-> chunk.category,
                                   chunkIndex |-> chunk.chunkIndex,
                                   model |-> MODEL_TAG]>> \o rest.metadatas]

\* the check of saveToChroma before the write
arraysBad(a) ==
  \/ Len(a.ids) = 0
  \/ Len(a.ids) # Len(a.embeddings)
  \/ Len(a.ids) # Len(a.metadatas)
  \/ Len(a.ids) # Len(a.documents)

\* what the index does with a record whose id it already holds: the
\* client library's add() is outside the program, and both behaviours of
\* an add-by-id (keep the stored record, replace it) are modelled
AddModes == {"ignore", "overwrite"}

idPos(idx, id) ==
  IF \E k \in 1..Len(idx) : idx[k].id = id
  THEN CHOOSE k \in 1..Len(idx) : idx[k].id = id
  ELSE 0

\* an add that stores the record whether or not its id is already held
addOne_duplicating(idx, rec, mode) == Append(idx, rec)

addOne(idx, rec, mode) ==
  LET k == idPos(idx, rec.id)
  IN  IF k = 0 THEN Append(idx, rec)
      ELSE IF mode = "overwrite" THEN [idx EXCEPT ![k] = rec]
      ELSE idx

\* collection.add({ids, embeddings, documents, metadatas}) on the stored
\* records idx, record j being made of the j-th entry of each array
RECURSIVE collectionAdd(_, _, _, _)
collectionAdd(idx, a, j, mode) ==
  IF j > Len(a.ids) THEN idx
  ELSE collectionAdd(addOne(idx, [id |-> a.ids[j], embedding |-> a.embeddings[j],
                                  document |-> a.documents[j],
                                  metadata |-> a.metadatas[j]], mode),
                     a, j + 1, mode)

\* saveToChroma(embeddedChunks): "skipped" when it returns without writing
\* (nothing to save), "thrown" when the arrays check throws, "added" with
\* the arrays handed to collection.add
saveToChroma(embeddedChunks) ==
  IF Len(embeddedChunks) = 0 THEN [result |-> "skipped", args |-> saveArrays(<< >>)]
  ELSE LET a == saveArrays(embeddedChunks)
       IN  IF arraysBad(a) THEN [result |-> "thrown", args |-> saveArrays(<< >>)]
           ELSE [result |-> "added", args |-> a]

----------------------------------------------------------------------------
(* Retrieval                                                               *)

\* collection.query({queryEmbeddings, nResults: 5}): the stored records the
\* index returns, at most nResults of them (its ranking is outside the
\* program; the model returns them in stored order)
collectionQuery(idx) ==
  LET n == IF Len(idx) < N_RESULTS THEN Len(idx) ELSE N_RESULTS
  IN  [documents |-> [j \in 1..n |-> idx[j].document],
       metadatas |-> [j \in 1..n |-> idx[j].metadata]]

SENTINEL_CONTEXT == <<"No relevant documents found.">>
FALLBACK_ANSWER == "The answer is not available in the provided documents."

\* the docs.forEach of POST /prompt: one labelled block per document
RECURSIVE contextBlocks(_, _, _)
contextBlocks(docs, metas, j) ==
  IF j > Len(docs) THEN << >>
  ELSE <<"Source: ">>
       \o (IF metas[j].filename = << >> THEN <<"unknown">> ELSE metas[j].filename)
       \o <<"\n", "Category: ">>
       \o (IF metas[j].category = << >> THEN <<"unknown">> ELSE metas[j].category)
       \o <<"\n", "Chunk: ">> \o ToStr(metas[j].chunkIndex)
       \o <<"\n", "\n">> \o docs[j]
       \o <<"\n", "------------------------------------------------", "\n", "\n", "\n">>
       \o contextBlocks(docs, metas, j + 1)

\* the context without the replacement of an empty one
buildContext_noSentinel(results) ==
  contextBlocks(results.documents, results.metadatas, 1)

\* contextText as handed to the generative model
buildContext(results) ==
  LET text == contextBlocks(results.documents, results.metadatas, 1)
  IN  IF Trim(text) = << >> THEN SENTINEL_CONTEXT ELSE text

\* what one call of ai.models.generateContent does
GenOutcomes == {"text", "raises", "notext"}
GEN_TEXT == "generated answer"

----------------------------------------------------------------------------
(* State                                                                   *)

\* longest filename and category makeChunkId is studied on
MaxNameLen == 2
\* largest chunkIndex makeChunkId is studied on
MaxIndex == 1
\* requests the service accepts in one run of the model
MaxRequests == 2
\* most chunks of the document ingested in the batching specification
MaxChunks == 17
\* embedding calls of one batch that do not return a usable vector
MaxFailures == 2

\* request handlers that can be in progress together
Procs == {1, 2}

VARIABLES
  env,          \* process.env: CHUNK_LENGTH and CHUNK_OVERLAP
  addMode,      \* behaviour of the index on an id it already holds
  corpus,       \* files under RAG_DATA_DIR: <<category, filename>> -> text
  index,        \* the records of the Chroma collection, in stored order
  call,         \* per handler invocation: position, locals and response
  log,          \* the ingestion calls that reached their end, in that order
  nreq,         \* requests accepted so far
  ctText, ctSize, ctOverlap,   \* arguments of the chunkText run
  ctSentences,  \* sentences the for-loop has still to visit
  ctState,      \* chunks and currentChunk of the chunkText run
  ctFlushed,    \* the buffer the last flush of the run pushed, or empty
  ctPc,         \* "loop", "done" or "off"
  idChunks,     \* the two chunks makeChunkId is called on
  idIds,        \* the identities returned so far, in call order
  idPc,         \* "call", "done" or "off"
  flChunks,     \* the chunks embedAllChunks is called on
  flI,          \* its loop variable i
  flStatus,     \* per chunk: "idle", "flight" (embedChunk called, not
                \* settled) or "done"
  flVectors,    \* per chunk: what its embedChunk resolved to
  flEmbedded,   \* its local embedded
  flReordered,  \* a call settled while an earlier call of its batch was
                \* still in flight
  flPc          \* "loop", "await", "done" or "off"

serverVars == <<env, addMode, corpus, index, call, log, nreq>>
chunkVars == <<ctText, ctSize, ctOverlap, ctSentences, ctState, ctFlushed, ctPc>>
idVars == <<idChunks, idIds, idPc>>
flVars == <<flChunks, flI, flStatus, flVectors, flEmbedded, flReordered, flPc>>
pureVars == <<chunkVars, idVars, flVars>>
vars == <<env, addMode, corpus, index, call, log, nreq,
          ctText, ctSize, ctOverlap, ctSentences, ctState, ctFlushed, ctPc,
          idChunks, idIds, idPc,
          flChunks, flI, flStatus, flVectors, flEmbedded, flReordered, flPc>>

\* req.file when the request carries no file
NoFile == [originalname |-> Undefined, data |-> << >>]

NoBody == [category |-> Undefined, file |-> NoFile, question |-> Undefined,
           chunkLength |-> NaN, chunkOverlap |-> NaN,
           specificFile |-> Undefined, specificCategory |-> Undefined]

NoRes == [status |-> 0, key |-> NULL, text |-> NULL]

\* a handler that is not running
Idle == [pc |-> "idle", kind |-> "none", body |-> NoBody,
         docs |-> << >>, chunks |-> << >>, embedded |-> << >>, i |-> 0,
         size |-> 0, overlap |-> 0,
         queryOutcome |-> "none", genOutcome |-> "none",
         results |-> [documents |-> << >>, metadatas |-> << >>],
         contextText |-> << >>,
         vectors |-> << >>,
         embedCalls |-> 0, queries |-> 0, generations |-> 0,
         adds |-> << >>, res |-> NoRes]

\* a vector an embedding call produced that is neither null nor empty
Usable(vector) == vector # NullVector /\ Len(vector) > 0

\* number of stored records of document filename/category
docCount(idx, filename, category) ==
  Cardinality({k \in 1..Len(idx) : /\ idx[k].metadata.filename = filename
                                   /\ idx[k].metadata.category = category})

\* the entry of log for a call that ends with status s and leaves idx
logEntry(c, s, idx) ==
  [docs |-> c.docs, size |-> c.size, overlap |-> c.overlap,
   allOk |-> \A j \in 1..Len(c.vectors) : Usable(c.vectors[j]),
   status |-> s,
   counts |-> [j \in 1..Len(c.docs) |->
                 docCount(idx, c.docs[j].filename, c.docs[j].category)]]

\* no handler invocation is in progress in this slot: none was started, or
\* the last one has sent its response
Free(c) == c.pc \in {"idle", "done"}

\* the slot a new request is handled in: the first free one
Accepts(p) == Free(call[p]) /\ \A q \in Procs : q < p => ~Free(call[q])

\* res.status(s).json({[key]: text}) and return
Respond(c, s, k, t) ==
  [c EXCEPT !.pc = "done", !.res = [status |-> s, key |-> k, text |-> t]]

ServerInit ==
  /\ env \in Envs
  /\ addMode \in AddModes
  /\ corpus = << >>
  /\ index = << >>
  /\ call = [p \in Procs |-> Idle]
  /\ log = << >>
  /\ nreq = 0

ChunkOff ==
  /\ ctText = << >> /\ ctSize = 0 /\ ctOverlap = 0 /\ ctSentences = << >>
  /\ ctState = [chunks |-> << >>, cur |-> << >>] /\ ctFlushed = << >>
  /\ ctPc = "off"

IdOff == idChunks = << >> /\ idIds = << >> /\ idPc = "off"

FlightOff ==
  /\ flChunks = << >> /\ flI = 0 /\ flStatus = << >> /\ flVectors = << >>
  /\ flEmbedded = << >> /\ flReordered = FALSE /\ flPc = "off"

\* no function is being studied on its own
PureOff == ChunkOff /\ IdOff /\ FlightOff

Init == ServerInit /\ PureOff

----------------------------------------------------------------------------
(* POST /upload                                                            *)

UploadFiles == [originalname : FileNames, data : Contents]

\* req.body.category: a name, absent or empty
UploadCategories == Categories \cup {Undefined, << >>}
\* req.body.category, blank names included
AllUploadCategories == UploadCategories \cup {CatBlank}

\* lines 344-360: validation, then the file is moved to
\* RAG_DATA_DIR/category/originalname
UploadRequestOf(p, categories) ==
  /\ Accepts(p)
  /\ nreq < MaxRequests
  /\ \E category \in categories, file \in UploadFiles \cup {NoFile} :
       LET c == [Idle EXCEPT !.kind = "upload",
                             !.body = [NoBody EXCEPT !.category = category,
                                                     !.file = file]]
       IN  IF category = Undefined \/ category = << >> \/ file = NoFile
           THEN /\ call' = [call EXCEPT ![p] =
                              Respond(c, 400, "error", "category and file are required")]
                /\ UNCHANGED corpus
           ELSE /\ call' = [call EXCEPT ![p] = [c EXCEPT !.pc = "upload_read"]]
                /\ corpus' = [k \in DOMAIN corpus \cup {<<category, file.originalname>>} |->
                                IF k = <<category, file.originalname>>
                                THEN file.data ELSE corpus[k]]
  /\ nreq' = nreq + 1
  /\ UNCHANGED <<env, addMode, index, log>>
  /\ UNCHANGED pureVars

UploadRequest(p) == UploadRequestOf(p, UploadCategories)

\* lines 364-380: the moved file is read back and chunked
UploadRead(p) ==
  /\ call[p].pc = "upload_read"
  /\ LET c      == call[p]
         name   == c.body.file.originalname
         text   == readFileContent(name, corpus[<<c.body.category, name>>])
         chunks == chunkText(text, CHUNK_LENGTH(env), 0)
         prepared == [j \in 1..Len(chunks) |->
                        [filename |-> name, category |-> c.body.category,
                         chunkIndex |-> j - 1, content |-> chunks[j]]]
     IN  call' = [call EXCEPT ![p] =
           IF text = << >>
           THEN Respond(c, 400, "error", "Uploaded file has no extractable text.")
           ELSE IF Len(chunks) = 0
           THEN Respond(c, 400, "error", "No chunks could be created from this file.")
           ELSE [c EXCEPT !.pc = "embed", !.chunks = prepared,
                          !.docs = <<[filename |-> name, category |-> c.body.category,
                                      content |-> text]>>,
                          !.size = CHUNK_LENGTH(env), !.overlap = 0]]
  /\ UNCHANGED <<env, addMode, corpus, index, log, nreq>>
  /\ UNCHANGED pureVars

----------------------------------------------------------------------------
(* embedAllChunks                                                          *)

\* the outcomes of the embedding calls of a batch of n chunks: at most
\* MaxFailures of them are not "ok"
RECURSIVE SubsetsUpTo(_, _)
SubsetsUpTo(S, k) ==
  IF k = 0 THEN {{}}
  ELSE LET smaller == SubsetsUpTo(S, k - 1)
       IN  smaller \cup {T \cup {x} : T \in smaller, x \in S}

BatchOutcomes(n) ==
  UNION { { [j \in 1..n |-> IF j \in F THEN g[j] ELSE "ok"] :
              g \in [F -> EmbedOutcomes \ {"ok"}] } :
          F \in SubsetsUpTo(1..n, MaxFailures) }

\* an embedAllChunks that hands each batch to the index as soon as it is
\* embedded
EmbedBatch_writing(p) ==
  /\ call[p].pc = "embed"
  /\ LET c     == call[p]
         batch == batchOf(c.chunks, c.i)
     IN  \E outcome \in BatchOutcomes(Len(batch)) :
           LET vectors == [j \in 1..Len(batch) |-> embedChunk(batch[j].content, outcome[j])]
               next    == c.i + EMBED_BATCH_SIZE
               s       == saveToChroma(collectEmbedded(batch, vectors))
           IN  /\ call' = [call EXCEPT ![p] =
                    [c EXCEPT !.embedded = c.embedded \o collectEmbedded(batch, vectors),
                              !.vectors = c.vectors \o vectors,
                              !.i = next,
                              !.embedCalls = c.embedCalls + Len(batch),
                              !.adds = IF s.result = "added"
                                       THEN Append(c.adds, s.args) ELSE c.adds,
                              !.pc = IF next < Len(c.chunks) THEN "embed" ELSE "save"]]
               /\ index' = IF s.result = "added"
                           THEN collectionAdd(index, s.args, 1, addMode) ELSE index
  /\ UNCHANGED <<env, addMode, corpus, log, nreq>>
  /\ UNCHANGED pureVars

\* one iteration of the for-loop of embedAllChunks: the batch's calls are
\* issued together, awaited together, and the usable vectors are collected
\* in batch order
EmbedBatch(p) ==
  /\ call[p].pc = "embed"
  /\ LET c     == call[p]
         batch == batchOf(c.chunks, c.i)
     IN  \E outcome \in BatchOutcomes(Len(batch)) :
           LET vectors == [j \in 1..Len(batch) |-> embedChunk(batch[j].content, outcome[j])]
               next    == c.i + EMBED_BATCH_SIZE
           IN  call' = [call EXCEPT ![p] =
                 [c EXCEPT !.embedded = c.embedded \o collectEmbedded(batch, vectors),
                           !.vectors = c.vectors \o vectors,
                           !.i = next,
                           !.embedCalls = c.embedCalls + Len(batch),
                           !.pc = IF next < Len(c.chunks) THEN "embed" ELSE "save"]]
  /\ UNCHANGED <<env, addMode, corpus, index, log, nreq>>
  /\ UNCHANGED pureVars

\* lines 384-389: the end of POST /upload
UploadSave(p) ==
  /\ call[p].pc = "save"
  /\ call[p].kind = "upload"
  /\ LET c == call[p]
         s == saveToChroma(c.embedded)
     IN  IF Len(c.embedded) = 0
         THEN /\ call' = [call EXCEPT ![p] =
                   Respond(c, 500, "error", "Failed to generate embeddings for file.")]
              /\ log' = Append(log, logEntry(c, 500, index))
              /\ UNCHANGED index
         ELSE IF s.result = "thrown"
         THEN /\ call' = [call EXCEPT ![p] = Respond(c, 500, "error", "Upload failed")]
              /\ log' = Append(log, logEntry(c, 500, index))
              /\ UNCHANGED index
         ELSE /\ index' = IF s.result = "added"
                          THEN collectionAdd(index, s.args, 1, addMode) ELSE index
              /\ log' = Append(log, logEntry(c, 200, index'))
              /\ call' = [call EXCEPT ![p] =
                   Respond([c EXCEPT !.adds = IF s.result = "added"
                                               THEN Append(c.adds, s.args) ELSE c.adds],
                           200, "message", "File uploaded and processed.")]
  /\ UNCHANGED <<env, addMode, corpus, nreq>>
  /\ UNCHANGED pureVars

----------------------------------------------------------------------------
(* POST /rechunk                                                           *)

\* request bodies of POST /rechunk: <<chunkLength, chunkOverlap,
\* specificFile, specificCategory>>
RechunkFields ==
  { <<NaN, NaN, Undefined, Undefined>>,
    <<3, 1, Undefined, Undefined>>,
    <<NaN, 0, Undefined, Undefined>>,
    <<NaN, NaN, NameMd, Undefined>>,
    <<NaN, NaN, Undefined, CatX>>,
    <<NaN, NaN, Undefined, CatY>> }

RechunkBodies ==
  { [NoBody EXCEPT !.chunkLength = f[1], !.chunkOverlap = f[2],
                   !.specificFile = f[3], !.specificCategory = f[4]] :
      f \in RechunkFields }

\* lines 510-517: the parameters are read and the corpus load is started
RechunkRequest(p) ==
  /\ Accepts(p)
  /\ nreq < MaxRequests
  /\ \E body \in RechunkBodies :
       call' = [call EXCEPT ![p] =
                  [Idle EXCEPT !.kind = "rechunk", !.body = body,
                               !.pc = "rechunk_load",
                               !.size = rechunkLength(body, env),
                               !.overlap = rechunkOverlap(body, env)]]
  /\ nreq' = nreq + 1
  /\ UNCHANGED <<env, addMode, corpus, index, log>>
  /\ UNCHANGED pureVars

\* a request field used as a condition: absent and "" are falsy
Given(v) == v # Undefined /\ v # << >>

\* lines 515-523: the documents are loaded, filtered and chunked.  docs is
\* declared const, so each of the two filter statements, when its
\* condition holds, throws a TypeError on the assignment, which the
\* handler's catch answers
RechunkLoad(p) ==
  /\ call[p].pc = "rechunk_load"
  /\ LET docs == loadAllDocumentsWithCategory(corpus)
         c    == [call[p] EXCEPT !.docs = docs]
         chunks == chunkAllDocuments(docs, c.size, c.overlap)
     IN  call' = [call EXCEPT ![p] =
           IF Given(c.body.specificCategory) \/ Given(c.body.specificFile)
           THEN Respond(c, 500, "error", "Rechunk failed")
           ELSE IF Len(docs) = 0
           THEN Respond(c, 404, "message", "No matching documents found")
           ELSE [c EXCEPT !.chunks = chunks,
                          !.pc = IF Len(chunks) = 0 THEN "save" ELSE "embed"]]
  /\ UNCHANGED <<env, addMode, corpus, index, log, nreq>>
  /\ UNCHANGED pureVars

\* lines 526-538: the end of POST /rechunk
RechunkSave(p) ==
  /\ call[p].pc = "save"
  /\ call[p].kind = "rechunk"
  /\ LET c == call[p]
         s == saveToChroma(c.embedded)
     IN  IF s.result = "thrown"
         THEN /\ call' = [call EXCEPT ![p] = Respond(c, 500, "error", "Rechunk failed")]
              /\ log' = Append(log, logEntry(c, 500, index))
              /\ UNCHANGED index
         ELSE /\ index' = IF s.result = "added"
                          THEN collectionAdd(index, s.args, 1, addMode) ELSE index
              /\ log' = Append(log, logEntry(c, 200, index'))
              /\ call' = [call EXCEPT ![p] =
                   Respond([c EXCEPT !.adds = IF s.result = "added"
                                               THEN Append(c.adds, s.args) ELSE c.adds],
                           200, "message", "Rechunk completed")]
  /\ UNCHANGED <<env, addMode, corpus, nreq>>
  /\ UNCHANGED pureVars

----------------------------------------------------------------------------
(* POST /prompt                                                            *)

Questions == {Undefined, << >>, <<" ">>, <<"q">>}

\* lines 404-408
PromptRequest(p) ==
  /\ Accepts(p)
  /\ nreq < MaxRequests
  /\ \E question \in Questions :
       LET c == [Idle EXCEPT !.kind = "prompt",
                             !.body = [NoBody EXCEPT !.question = question]]
       IN  call' = [call EXCEPT ![p] =
             IF question = Undefined \/ question = << >> \/ Trim(question) = << >>
             THEN Respond(c, 400, "error", "question is required")
             ELSE [c EXCEPT !.pc = "prompt_embed"]]
  /\ nreq' = nreq + 1
  /\ UNCHANGED <<env, addMode, corpus, index, log>>
  /\ UNCHANGED pureVars

\* lines 413-417
PromptEmbed(p) ==
  /\ call[p].pc = "prompt_embed"
  /\ \E outcome \in EmbedOutcomes :
       LET c == [call[p] EXCEPT !.embedCalls = 1, !.queryOutcome = outcome]
           queryEmbedding == embedChunk(c.body.question, outcome)
       IN  call' = [call EXCEPT ![p] =
             IF queryEmbedding = NullVector \/ Len(queryEmbedding) = 0
             THEN Respond(c, 500, "error", "Failed to embed question")
             ELSE [c EXCEPT !.pc = "prompt_query"]]
  /\ UNCHANGED <<env, addMode, corpus, index, log, nreq>>
  /\ UNCHANGED pureVars

\* lines 422-449
PromptQuery(p) ==
  /\ call[p].pc = "prompt_query"
  /\ LET c == call[p]
         results == collectionQuery(index)
     IN  call' = [call EXCEPT ![p] =
           [c EXCEPT !.pc = "prompt_generate",
                     !.queries = c.queries + 1,
                     !.results = results,
                     !.contextText = buildContext(results)]]
  /\ UNCHANGED <<env, addMode, corpus, index, log, nreq>>
  /\ UNCHANGED pureVars

\* the answer read from a response of the generative model
answerOf(outcome) == IF outcome = "text" THEN GEN_TEXT ELSE FALLBACK_ANSWER

\* lines 454-500
PromptGenerate(p) ==
  /\ call[p].pc = "prompt_generate"
  /\ \E outcome \in GenOutcomes :
       LET c == [call[p] EXCEPT !.generations = call[p].generations + 1,
                                !.genOutcome = outcome]
       IN  call' = [call EXCEPT ![p] =
             IF outcome = "raises"
             THEN Respond(c, 500, "error", "Prompt failed")
             ELSE Respond(c, 200, "answer", answerOf(outcome))]
  /\ UNCHANGED <<env, addMode, corpus, index, log, nreq>>
  /\ UNCHANGED pureVars

----------------------------------------------------------------------------

Next ==
  \E p \in Procs :
    \/ UploadRequest(p)
    \/ UploadRead(p)
    \/ EmbedBatch(p)
    \/ UploadSave(p)
    \/ RechunkRequest(p)
    \/ RechunkLoad(p)
    \/ RechunkSave(p)
    \/ PromptRequest(p)
    \/ PromptEmbed(p)
    \/ PromptQuery(p)
    \/ PromptGenerate(p)

Spec == Init /\ [][Next]_vars

----------------------------------------------------------------------------
(* Uploads and questions only, blank categories included                   *)

ValidationNext ==
  \E p \in Procs :
    \/ UploadRequestOf(p, AllUploadCategories)
    \/ UploadRead(p)
    \/ EmbedBatch(p)
    \/ UploadSave(p)
    \/ PromptRequest(p)
    \/ PromptEmbed(p)
    \/ PromptQuery(p)
    \/ PromptGenerate(p)

ValidationSpec == Init /\ [][ValidationNext]_vars

----------------------------------------------------------------------------
(* chunkText, one loop iteration at a time                                 *)

\* the texts of length at most n over Alphabet
RECURSIVE TextsUpTo(_)
TextsUpTo(n) ==
  IF n = 0 THEN {<< >>}
  ELSE LET shorter == TextsUpTo(n - 1)
       IN  shorter \cup {Append(t, ch) : t \in {u \in shorter : Len(u) = n - 1},
                                          ch \in Alphabet}

\* the service is at rest while chunkText is studied on its own
ServerOff ==
  /\ env = [CHUNK_LENGTH |-> NaN, CHUNK_OVERLAP |-> NaN]
  /\ addMode = "ignore"
  /\ corpus = << >>
  /\ index = << >>
  /\ call = [p \in Procs |-> Idle]
  /\ log = << >>
  /\ nreq = 0

\* a text of three sentences, each shorter than ExampleSize, any two
\* adjacent ones longer than it together
ExampleText ==
  <<"R","a","t","e","s"," ","r","o","s","e","."," ",
    "F","e","e","s"," ","d","r","o","p","p","e","d","."," ",
    "S","t","a","f","f"," ","l","e","f","t",".">>
ExampleSize == 20

\* chunkText(text, size, overlap) is entered: the sentences are split
ChunkInit ==
  /\ ServerOff
  /\ IdOff
  /\ FlightOff
  /\ \/ /\ ctText \in TextsUpTo(MaxTextLen)
        /\ ctSize \in 1..MaxSize
        /\ ctOverlap \in 0..(ctSize - 1)
     \/ /\ ctText = ExampleText
        /\ ctSize = ExampleSize
        /\ ctOverlap = 0
  /\ ctSentences = Sentences(ctText)
  /\ ctState = [chunks |-> << >>, cur |-> << >>]
  /\ ctFlushed = << >>
  /\ ctPc = "loop"

\* one iteration of the for-loop (lines 169-185)
ChunkStep ==
  /\ ctPc = "loop"
  /\ ctSentences # << >>
  /\ ctState' = ChunkIter(ctState, Head(ctSentences), ctSize, ctOverlap)
  /\ ctFlushed' = IF Len(ctState'.chunks) > Len(ctState.chunks)
                  THEN ctState.cur ELSE << >>
  /\ ctSentences' = Tail(ctSentences)
  /\ UNCHANGED <<ctText, ctSize, ctOverlap, ctPc>>
  /\ UNCHANGED serverVars
  /\ UNCHANGED <<idVars, flVars>>

\* the flush after the loop and the return (lines 187-191)
ChunkReturn ==
  /\ ctPc = "loop"
  /\ ctSentences = << >>
  /\ ctState' = [ctState EXCEPT !.chunks = ChunkFlush(ctState)]
  /\ ctFlushed' = << >>
  /\ ctPc' = "done"
  /\ UNCHANGED <<ctText, ctSize, ctOverlap, ctSentences>>
  /\ UNCHANGED serverVars
  /\ UNCHANGED <<idVars, flVars>>

ChunkNext == ChunkStep \/ ChunkReturn

ChunkSpec == ChunkInit /\ [][ChunkNext]_vars

----------------------------------------------------------------------------
(* makeChunkId on two chunks                                               *)

\* characters filenames and categories are drawn from: a letter and the
\* separator of the identity's template string
IdAlphabet == {"a", "|"}

\* the non-empty names of length at most n over IdAlphabet
RECURSIVE NamesUpTo(_)
NamesUpTo(n) ==
  IF n = 0 THEN {}
  ELSE LET shorter == NamesUpTo(n - 1)
       IN  shorter \cup {<<ch>> : ch \in IdAlphabet}
                   \cup {Append(t, ch) : t \in {u \in shorter : Len(u) = n - 1},
                                          ch \in IdAlphabet}

IdChunkInputs ==
  [filename : NamesUpTo(MaxNameLen), category : NamesUpTo(MaxNameLen),
   chunkIndex : 0..MaxIndex, content : {<<"a", ".">>}]

\* two chunks are about to be given an identity
IdInit ==
  /\ ServerOff
  /\ ChunkOff
  /\ FlightOff
  /\ idChunks \in IdChunkInputs \X IdChunkInputs
  /\ idIds = << >>
  /\ idPc = "call"

\* ids.push(makeChunkId(chunk)) for the next of the two chunks (line 294)
IdCall ==
  /\ idPc = "call"
  /\ Len(idIds) < 2
  /\ idIds' = Append(idIds, makeChunkId(idChunks[Len(idIds) + 1]))
  /\ idPc' = IF Len(idIds') = 2 THEN "done" ELSE "call"
  /\ UNCHANGED idChunks
  /\ UNCHANGED serverVars
  /\ UNCHANGED <<chunkVars, flVars>>

IdNext == IdCall

IdSpec == IdInit /\ [][IdNext]_vars

----------------------------------------------------------------------------
(* embedAllChunks, one embedding call at a time                            *)

\* numbers of chunks embedAllChunks is called on: none, one, and one full
\* batch followed by a short one
FlightSizes == {0, 1, MaxChunks}

\* the k-th chunk; its content, and so its vector, differs from chunk to
\* chunk
FlightChunk(k) ==
  [filename |-> NameMd, category |-> CatX, chunkIndex |-> k - 1,
   content |-> [j \in 1..k |-> "a"]]

\* the calls whose outcome is left open; the others return a vector
FlightFailable == {2, EMBED_BATCH_SIZE + 1}

\* the 1-based positions of chunks.slice(i, i + EMBED_BATCH_SIZE)
FlightBatch(i, n) ==
  (i + 1)..(IF i + EMBED_BATCH_SIZE < n THEN i + EMBED_BATCH_SIZE ELSE n)

FlightInit ==
  /\ ServerOff
  /\ ChunkOff
  /\ IdOff
  /\ \E n \in FlightSizes : flChunks = [k \in 1..n |-> FlightChunk(k)]
  /\ flI = 0
  /\ flStatus = [k \in 1..Len(flChunks) |-> "idle"]
  /\ flVectors = [k \in 1..Len(flChunks) |-> NullVector]
  /\ flEmbedded = << >>
  /\ flReordered = FALSE
  /\ flPc = "loop"

\* lines 250-255: the loop test holds, the batch is cut and batch.map calls
\* embedChunk on each of its chunks; Promise.all is awaited
FlightStartBatch ==
  /\ flPc = "loop"
  /\ flI < Len(flChunks)
  /\ flStatus' = [k \in 1..Len(flChunks) |->
                    IF k \in FlightBatch(flI, Len(flChunks)) THEN "flight"
                    ELSE flStatus[k]]
  /\ flPc' = "await"
  /\ UNCHANGED <<flChunks, flI, flVectors, flEmbedded, flReordered>>
  /\ UNCHANGED serverVars
  /\ UNCHANGED <<chunkVars, idVars>>

\* an embedChunk that pushes its chunk onto embedded as soon as it settles
FlightFinish_pushing(k) ==
  /\ flPc = "await"
  /\ flStatus[k] = "flight"
  /\ \E outcome \in (IF k \in FlightFailable THEN EmbedOutcomes ELSE {"ok"}) :
       /\ flVectors' = [flVectors EXCEPT ![k] = embedChunk(flChunks[k].content, outcome)]
       /\ flEmbedded' = flEmbedded \o collectEmbedded(<<flChunks[k]>>, <<flVectors'[k]>>)
  /\ flStatus' = [flStatus EXCEPT ![k] = "done"]
  /\ flReordered' = (flReordered \/ \E j \in 1..(k - 1) : flStatus[j] = "flight")
  /\ UNCHANGED <<flChunks, flI, flPc>>
  /\ UNCHANGED serverVars
  /\ UNCHANGED <<chunkVars, idVars>>

\* lines 224-243: one embedChunk in flight settles, in any order
FlightFinish(k) ==
  /\ flPc = "await"
  /\ flStatus[k] = "flight"
  /\ \E outcome \in (IF k \in FlightFailable THEN EmbedOutcomes ELSE {"ok"}) :
       flVectors' = [flVectors EXCEPT ![k] = embedChunk(flChunks[k].content, outcome)]
  /\ flStatus' = [flStatus EXCEPT ![k] = "done"]
  /\ flReordered' = (flReordered \/ \E j \in 1..(k - 1) : flStatus[j] = "flight")
  /\ UNCHANGED <<flChunks, flI, flEmbedded, flPc>>
  /\ UNCHANGED serverVars
  /\ UNCHANGED <<chunkVars, idVars>>

\* lines 257-265: Promise.all has resolved with the vectors in batch order;
\* forEach pushes the chunks with a truthy vector; i += EMBED_BATCH_SIZE
FlightCollect ==
  /\ flPc = "await"
  /\ \A k \in FlightBatch(flI, Len(flChunks)) : flStatus[k] = "done"
  /\ LET batch   == batchOf(flChunks, flI)
         vectors == [j \in 1..Len(batch) |-> flVectors[flI + j]]
     IN  flEmbedded' = flEmbedded \o collectEmbedded(batch, vectors)
  /\ flI' = flI + EMBED_BATCH_SIZE
  /\ flPc' = "loop"
  /\ UNCHANGED <<flChunks, flStatus, flVectors, flReordered>>
  /\ UNCHANGED serverVars
  /\ UNCHANGED <<chunkVars, idVars>>

\* line 267: the loop test fails, embedded is returned
FlightReturn ==
  /\ flPc = "loop"
  /\ flI >= Len(flChunks)
  /\ flPc' = "done"
  /\ UNCHANGED <<flChunks, flI, flStatus, flVectors, flEmbedded, flReordered>>
  /\ UNCHANGED serverVars
  /\ UNCHANGED <<chunkVars, idVars>>

FlightNext ==
  \/ FlightStartBatch
  \/ \E k \in 1..Len(flChunks) : FlightFinish(k)
  \/ FlightCollect
  \/ FlightReturn

FlightSpec == FlightInit /\ [][FlightNext]_vars

----------------------------------------------------------------------------
(* One ingestion call on a document of many chunks                         *)

\* the text of n sentences "a."
RECURSIVE ManySentences(_)
ManySentences(n) ==
  IF n = 0 THEN << >>
  ELSE IF n = 1 THEN <<"a", ".">>
  ELSE <<"a", ".", " ">> \o ManySentences(n - 1)

\* numbers of sentences of the document: none, few, and around one full
\* batch of EMBED_BATCH_SIZE chunks
DocSizes == {0, 1, 2} \cup ((MaxChunks - 2)..MaxChunks)

\* the configuration under which each sentence "a." is a chunk of its own
SmallChunkEnv == [CHUNK_LENGTH |-> 2, CHUNK_OVERLAP |-> 1]

\* a.md of category x holds n sentences (none: it is empty), and one call is in progress that
\* ingests it: POST /upload after the file was moved, or POST /rechunk
\* while the corpus is loaded
EmbedInit ==
  /\ PureOff
  /\ env = SmallChunkEnv
  /\ addMode = "ignore"
  /\ index = << >>
  /\ log = << >>
  /\ nreq = MaxRequests
  /\ \E n \in DocSizes :
       /\ corpus = [k \in {<<CatX, NameMd>>} |-> ManySentences(n)]
       /\ \E first \in
            { [Idle EXCEPT !.kind = "upload", !.pc = "upload_read",
                           !.body = [NoBody EXCEPT
                                       !.category = CatX,
                                       !.file = [originalname |-> NameMd,
                                                 data |-> ManySentences(n)]]],
              [Idle EXCEPT !.kind = "rechunk", !.pc = "rechunk_load",
                           !.size = rechunkLength(NoBody, SmallChunkEnv),
                           !.overlap = rechunkOverlap(NoBody, SmallChunkEnv)] } :
            call = [p \in Procs |-> IF p = 1 THEN first ELSE Idle]

EmbedNext ==
  \E p \in Procs :
    \/ UploadRead(p)
    \/ RechunkLoad(p)
    \/ EmbedBatch(p)
    \/ UploadSave(p)
    \/ RechunkSave(p)

EmbedSpec == EmbedInit /\ [][EmbedNext]_vars

----------------------------------------------------------------------------
(* Claims                                                                  *)

\* a chunk that is one sentence of the text longer than size, as chunkText
\* pushes it (trimmed)
OversizedSentence(chunk, text, size) ==
  \E k \in 1..Len(Sentences(text)) :
    /\ Len(Sentences(text)[k]) > size
    /\ chunk = Trim(Sentences(text)[k])

\* C1: for every text, every size S > 0 and every overlap O with
\* 0 <= O < S, each chunk chunkText returns has length <= S, unless the
\* chunk is exactly one sentence of the text that is itself longer than S.
C1_ChunkWithinSize ==
  ctPc = "done" =>
    \A j \in 1..Len(ctState.chunks) :
      \/ Len(ctState.chunks[j]) <= ctSize
      \/ OversizedSentence(ctState.chunks[j], ctText, ctSize)

\* log entries i < j ingest the same document (position a of i, b of j)
\* with the same chunk parameters, every embedding of both calls succeeds,
\* and no ingestion of that filename and category ends between them
Reingested(i, a, j, b) ==
  /\ i < j
  /\ log[i].docs[a] = log[j].docs[b]
  /\ log[i].size = log[j].size
  /\ log[i].overlap = log[j].overlap
  /\ log[i].allOk /\ log[j].allOk
  /\ log[i].status = 200
  /\ \A k \in (i + 1)..(j - 1) : \A d \in 1..Len(log[k].docs) :
       \/ log[k].docs[d].filename # log[i].docs[a].filename
       \/ log[k].docs[d].category # log[i].docs[a].category

\* C2: ingesting the same document twice (same filename, category,
\* content, chunk size and overlap), every embedding succeeding both times,
\* leaves the number of index records of that document the same after the
\* second ingestion as after the first, and the second call succeeds.
C2_ReingestIdempotent ==
  \A i, j \in 1..Len(log) :
    \A a \in 1..Len(log[i].docs), b \in 1..Len(log[j].docs) :
      Reingested(i, a, j, b) =>
        /\ log[j].status = 200
        /\ log[j].counts[b] = log[i].counts[a]

\* a document of two chunks has been ingested twice and holds two records
C2_Witness ==
  \E i, j \in 1..Len(log) :
    \E a \in 1..Len(log[i].docs), b \in 1..Len(log[j].docs) :
      /\ Reingested(i, a, j, b)
      /\ log[j].counts[b] = 2
      /\ docCount(index, log[j].docs[b].filename, log[j].docs[b].category) = 2

\* the call of slot p is an ingestion whose embedAllChunks has returned
Embedded(p) == call[p].kind \in {"upload", "rechunk"} /\ call[p].pc \in {"save", "done"}
                 /\ Len(call[p].vectors) = Len(call[p].chunks)

\* the chunks whose embedding call gave a usable vector, each with it, in
\* input order
RECURSIVE Succeeded(_, _)
Succeeded(chunks, vectors) ==
  IF chunks = << >> THEN << >>
  ELSE LET rest == Succeeded(Tail(chunks), Tail(vectors))
           c == Head(chunks)
       IN  IF Usable(Head(vectors))
           THEN <<[filename |-> c.filename, category |-> c.category,
                   chunkIndex |-> c.chunkIndex, content |-> c.content,
                   embedding |-> Head(vectors)]>> \o rest
           ELSE rest

Failures(vectors) == {j \in 1..Len(vectors) : ~Usable(vectors[j])}

\* C3: whatever chunks fail to embed (provider error, missing tensor,
\* empty vector), embedAllChunks returns exactly the chunks whose embedding
\* succeeded, each with its vector, in input order; one failure among 16
\* chunks gives 15 embedded chunks, which the call stores, answering 200.
C3_EmbedAllReturnsSucceeded ==
  \A p \in Procs :
    Embedded(p) =>
      /\ call[p].embedded = Succeeded(call[p].chunks, call[p].vectors)
      /\ (Len(call[p].chunks) = 16 /\ Cardinality(Failures(call[p].vectors)) = 1) =>
           /\ Len(call[p].embedded) = 15
           /\ call[p].pc = "done" =>
                /\ call[p].res.status = 200
                /\ Len(call[p].adds) = 1
                /\ Len(call[p].adds[1].ids) = 15

\* the prompt call of slot p has sent its response
PromptDone(p) == call[p].kind = "prompt" /\ call[p].pc = "done"

\* C4: in POST /prompt, once the question is embedded and the index
\* queried, a generative call that raises or returns no text is answered
\* 200 with the fixed "not available" sentence, never 500.
C4_GenerationFailureFallback ==
  \A p \in Procs :
    (PromptDone(p) /\ call[p].genOutcome \in {"raises", "notext"}) =>
      call[p].res = [status |-> 200, key |-> "answer", text |-> FALLBACK_ANSWER]

\* C5: in POST /prompt, when the query returns zero documents the context
\* handed to the generative model is exactly "No relevant documents
\* found.", the generative call is still issued, and whenever the
\* generative call is reached the context is non-empty.
C5_EmptyRetrievalSentinel ==
  \A p \in Procs :
    call[p].kind = "prompt" =>
      /\ (call[p].pc = "prompt_generate" \/ call[p].generations > 0) =>
           /\ call[p].contextText # << >>
           /\ Trim(call[p].contextText) # << >>
           /\ call[p].results.documents = << >> =>
                call[p].contextText = SENTINEL_CONTEXT
      /\ (call[p].pc = "done" /\ call[p].queries > 0) => call[p].generations = 1

\* a prompt call whose query returned nothing has called the generative
\* model with the sentinel context
C5_Witness ==
  \E p \in Procs :
    /\ PromptDone(p)
    /\ call[p].queries = 1
    /\ call[p].results.documents = << >>
    /\ call[p].contextText = SENTINEL_CONTEXT
    /\ call[p].generations = 1

\* C10: in POST /prompt, when embedding the question fails (provider
\* error, no tensor, empty vector) the answer is 500 "Failed to embed
\* question", no index query and no generative call is issued, and no
\* call that did query the index gets that answer.
C10_QuestionEmbeddingFailure ==
  \A p \in Procs :
    LET failed == [status |-> 500, key |-> "error", text |-> "Failed to embed question"]
    IN  /\ (call[p].kind = "prompt" /\ call[p].queryOutcome \in {"error", "notensor", "empty"}) =>
             /\ call[p].pc = "done"
             /\ call[p].res = failed
             /\ call[p].queries = 0
             /\ call[p].generations = 0
        /\ (PromptDone(p) /\ call[p].queries > 0) => call[p].res # failed

\* a prompt call whose question got no tensor has been answered
C10_Witness ==
  \E p \in Procs :
    /\ PromptDone(p)
    /\ call[p].queryOutcome = "notensor"
    /\ call[p].res.status = 500
    /\ call[p].queries = 0

\* the rechunk call of slot p has sent its response
RechunkDone(p) == call[p].kind = "rechunk" /\ call[p].pc = "done"

\* the loaded documents a rechunk body selects
Matching(docs, body) ==
  LET keep(doc) == /\ Given(body.specificCategory) => doc.category = body.specificCategory
                   /\ Given(body.specificFile) => doc.filename = body.specificFile
  IN  SelectSeq(docs, keep)

\* C6: POST /rechunk with a specificCategory or specificFile that matches
\* none of the loaded documents answers 404 "No matching documents found"
\* without any embedding call or index write; when the filter matches some
\* documents, only those are chunked and ingested.
C6_RechunkFilter ==
  \A p \in Procs :
    (RechunkDone(p) /\ (Given(call[p].body.specificCategory)
                         \/ Given(call[p].body.specificFile))) =>
      LET matching == Matching(call[p].docs, call[p].body)
      IN  IF matching = << >>
          THEN /\ call[p].res = [status |-> 404, key |-> "message",
                                 text |-> "No matching documents found"]
               /\ call[p].embedCalls = 0
               /\ call[p].adds = << >>
          ELSE call[p].chunks = chunkAllDocuments(matching, call[p].size, call[p].overlap)

\* C7: the four arrays of every index write have equal, non-zero length;
\* an ingestion call whose set to write is empty ends in an error, never
\* reports success, and writes nothing.
C7_WriteArraysNonEmpty ==
  \A p \in Procs :
    /\ \A k \in 1..Len(call[p].adds) :
         /\ Len(call[p].adds[k].ids) > 0
         /\ Len(call[p].adds[k].ids) = Len(call[p].adds[k].embeddings)
         /\ Len(call[p].adds[k].ids) = Len(call[p].adds[k].documents)
         /\ Len(call[p].adds[k].ids) = Len(call[p].adds[k].metadatas)
    /\ (Embedded(p) /\ call[p].pc = "done"
          /\ Len(saveArrays(call[p].embedded).ids) = 0) =>
         /\ call[p].res.status >= 400
         /\ call[p].adds = << >>

\* the per-call part of C8: at most one write, held only by a call that
\* finished its batches and answered 200
C8_CallState ==
  \A p \in Procs :
    /\ Len(call[p].adds) <= 1
    /\ call[p].adds # << >> =>
         /\ call[p].kind \in {"upload", "rechunk"}
         /\ call[p].pc = "done"
         /\ call[p].i >= Len(call[p].chunks)
         /\ Len(call[p].vectors) = Len(call[p].chunks)
         /\ call[p].res.status = 200
    /\ (call[p].pc = "done" /\ call[p].res.status # 200) => call[p].adds = << >>

\* the per-step part of C8: the index changes only by the single write of
\* a call that is past its batch loop
C8_WriteStep ==
  index' # index =>
    \E p \in Procs :
      /\ call[p].pc = "save"
      /\ call[p].i >= Len(call[p].chunks)
      /\ call[p].adds = << >>
      /\ Len(call'[p].adds) = 1
      /\ index' = collectionAdd(index, call'[p].adds[1], 1, addMode)

\* C8: at most one index write per ingestion call, issued after the last
\* embedding batch, none by a call that ends in an error (every state
\* satisfies C8_CallState, every step C8_WriteStep).
C8_SingleWriteAfterEmbedding == []C8_CallState /\ [][C8_WriteStep]_vars

\* a call of two embedding batches has written once and answered 200
C8_Witness ==
  \E p \in Procs :
    /\ call[p].pc = "done"
    /\ Len(call[p].chunks) > EMBED_BATCH_SIZE
    /\ Len(call[p].adds) = 1
    /\ Len(index) > 0

\* C9: POST /upload and POST /rechunk without chunk parameters chunk the
\* same document (filename, category, content) into the same sequence of
\* chunks.
C9_SameChunkingBothModes ==
  \A p, q \in Procs :
    ( /\ call[p].kind = "upload" /\ call[p].chunks # << >>
      /\ call[q].kind = "rechunk" /\ call[q].chunks # << >>
      /\ call[q].body.chunkLength = NaN /\ call[q].body.chunkOverlap = NaN ) =>
      \A d \in 1..Len(call[q].docs) :
        call[q].docs[d] = call[p].docs[1] =>
          docChunks(call[q].docs[d], call[q].size, call[q].overlap) = call[p].chunks

\* C12: makeChunkId depends only on (filename, category, chunkIndex): the
\* same triple gives the same identity, and two chunks that differ in
\* filename or in chunkIndex give different identities (the hash taken as
\* collision-free), whatever their categories.
C12_IdentityInjective ==
  idPc = "done" =>
    LET a == idChunks[1]
        b == idChunks[2]
    IN  /\ (a.filename = b.filename /\ a.category = b.category
              /\ a.chunkIndex = b.chunkIndex) => idIds[1] = idIds[2]
        /\ (a.filename # b.filename \/ a.chunkIndex # b.chunkIndex) =>
             idIds[1] # idIds[2]

\* chunks.join(" ")
RECURSIVE JoinSpace(_)
JoinSpace(chunks) ==
  IF chunks = << >> THEN << >>
  ELSE IF Len(chunks) = 1 THEN chunks[1]
  ELSE chunks[1] \o <<" ">> \o JoinSpace(Tail(chunks))

\* C13: with overlap 0, the chunks of a text joined by single spaces are the
\* text with every whitespace run collapsed to one space and trimmed; a text
\* that is empty or only whitespace gives no chunk; the three-sentence
\* example with size 20 gives one chunk per sentence.
C13_NoOverlapLossless ==
  (ctPc = "done" /\ ctOverlap = 0) =>
    /\ JoinSpace(ctState.chunks) = Trim(NormalizeWs(ctText))
    /\ \A j \in 1..Len(ctState.chunks) : ctState.chunks[j] # << >>
    /\ Trim(ctText) = << >> => ctState.chunks = << >>
    /\ (ctText = ExampleText /\ ctSize = ExampleSize) =>
         ctState.chunks = << SubSeq(ExampleText, 1, 11),
                             SubSeq(ExampleText, 13, 25),
                             SubSeq(ExampleText, 27, 37) >>

\* a text with surplus whitespace has been cut into several chunks
C13_Witness ==
  /\ ctPc = "done"
  /\ ctOverlap = 0
  /\ Len(ctState.chunks) >= 2
  /\ ctText # Trim(NormalizeWs(ctText))

IsPrefix(p, s) == Len(p) <= Len(s) /\ SubSeq(s, 1, Len(p)) = p
IsSuffix(p, s) == Len(p) <= Len(s) /\ SubSeq(s, Len(s) - Len(p) + 1, Len(s)) = p

\* this step of the loop pushes the (non-empty) buffer as a chunk
FlushStep ==
  /\ ctPc = "loop"
  /\ ctSentences # << >>
  /\ Len(ctState'.chunks) > Len(ctState.chunks)

\* C14 as stated: at every flush of a non-empty buffer the next buffer
\* starts with the last O characters of the flushed buffer when O > 0, and
\* with the sentence being added (an empty seed) when O = 0.
C14_SeedIsLastChars ==
  [][FlushStep =>
       IF ctOverlap > 0
       THEN IsPrefix(SliceLast(ctState.cur, ctOverlap), ctState'.cur)
       ELSE ctState'.cur = Head(ctSentences) \o <<" ">>]_vars

\* C14, amended: at every flush of a non-empty buffer with O > 0 the next
\* buffer is the last O characters of the flushed buffer with the
\* whitespace at both ends removed, then the sentence and a space; that seed
\* is a suffix of the chunk just pushed and is shorter than O; with O = 0
\* the next buffer is the sentence and a space.
C14_SeedIsTrimmedLastChars ==
  [][FlushStep =>
       LET seed == Trim(SliceLast(ctState.cur, ctOverlap))
           last == ctState'.chunks[Len(ctState'.chunks)]
       IN  IF ctOverlap > 0
           THEN /\ ctState'.cur = seed \o Head(ctSentences) \o <<" ">>
                /\ IsSuffix(seed, last)
                /\ Len(seed) < ctOverlap
           ELSE ctState'.cur = Head(ctSentences) \o <<" ">>]_vars

\* a buffer has just been flushed with an overlap that leaves a non-empty
\* seed, shorter than the last O characters it was cut from
C14_Witness ==
  /\ ctPc = "loop"
  /\ ctOverlap > 0
  /\ ctFlushed # << >>
  /\ Trim(SliceLast(ctFlushed, ctOverlap)) # << >>
  /\ IsPrefix(Trim(SliceLast(ctFlushed, ctOverlap)), ctState.cur)
  /\ ~IsPrefix(SliceLast(ctFlushed, ctOverlap), ctState.cur)

\* C15: for any overlap, a sentence longer than size is in the result whole
\* and alone: as many chunks are exactly that sentence (no other sentence
\* and no overlap seed attached) as the text has occurrences of it.
C15_OversizedSentenceAlone ==
  ctPc = "done" =>
    \A k \in 1..Len(Sentences(ctText)) :
      LET sentence == Trim(Sentences(ctText)[k])
      IN  Len(sentence) > ctSize =>
            Cardinality({j \in 1..Len(ctState.chunks) :
                           ctState.chunks[j] = sentence})
              = Cardinality({i \in 1..Len(Sentences(ctText)) :
                               Trim(Sentences(ctText)[i]) = sentence})

\* a request field that is absent, empty or only whitespace
Blank(field) == field = Undefined \/ Trim(field) = << >>

\* the handler has validated the request of this slot and misses a
\* required field
MissingRequired(c) ==
  \/ c.kind = "prompt" /\ Blank(c.body.question)
  \/ c.kind = "upload" /\ (Blank(c.body.category) \/ c.body.file = NoFile)

\* C11: a request whose required field is missing or blank (question of
\* POST /prompt; category or file of POST /upload) is answered 400 with the
\* endpoint's message, and no embedding, index or generative call is made
\* for it.
C11_MissingFieldIs400 ==
  \A p \in Procs :
    MissingRequired(call[p]) =>
      /\ call[p].pc = "done"
      /\ call[p].res.status = 400
      /\ call[p].res.key = "error"
      /\ call[p].res.text = IF call[p].kind = "prompt"
                            THEN "question is required"
                            ELSE "category and file are required"
      /\ call[p].embedCalls = 0
      /\ call[p].queries = 0
      /\ call[p].generations = 0
      /\ call[p].adds = << >>

\* position j of the arrays a of one collection.add holds the id, text,
\* metadata and vector of one and the same chunk of call c
SameChunkAt(c, a, j) ==
  \E k \in 1..Len(c.chunks) :
    /\ k <= Len(c.vectors)
    /\ a.ids[j] = makeChunkId(c.chunks[k])
    /\ a.documents[j] = c.chunks[k].content
    /\ a.metadatas[j] = [filename |-> c.chunks[k].filename,
                         category |-> c.chunks[k].category,
                         chunkIndex |-> c.chunks[k].chunkIndex,
                         model |-> MODEL_TAG]
    /\ a.embeddings[j] = c.vectors[k]

\* C16: whatever the embedding calls return, every embedding in the arrays
\* handed to collection.add is a non-empty vector, the one returned for the
\* chunk whose id, text and metadata are at the same position; so no
\* record of the index has a null or empty embedding.
C16_NoEmptyEmbeddingWritten ==
  /\ \A p \in Procs : \A n \in 1..Len(call[p].adds) :
       LET a == call[p].adds[n]
       IN  /\ Len(a.embeddings) = Len(a.ids)
           /\ Len(a.documents) = Len(a.ids)
           /\ Len(a.metadatas) = Len(a.ids)
           /\ \A j \in 1..Len(a.ids) :
                /\ Usable(a.embeddings[j])
                /\ SameChunkAt(call[p], a, j)
  /\ \A k \in 1..Len(index) : Usable(index[k].embedding)

\* a call has written although one of its embedding calls failed and
\* another returned a zero-length vector
C16_Witness ==
  \E p \in Procs :
    /\ call[p].adds # << >>
    /\ \E k \in 1..Len(call[p].vectors) : call[p].vectors[k] = NullVector
    /\ \E k \in 1..Len(call[p].vectors) : call[p].vectors[k] = << >>
    /\ index # << >>

\* the embedChunk calls that have been made and have not settled
InFlight == {k \in 1..Len(flChunks) : flStatus[k] = "flight"}

\* the batch of the k-th chunk, counted from 0
BatchNo(k) == (k - 1) \div EMBED_BATCH_SIZE

\* C17: within one embedAllChunks call at most EMBED_BATCH_SIZE embedding
\* calls are in flight, all of one batch; a call of a batch has started
\* only if every call of every earlier batch has settled; and the returned
\* list holds the chunks with a truthy vector in chunk order, whatever the
\* order in which the calls settled.
C17_BatchesInSequence ==
  /\ Cardinality(InFlight) <= EMBED_BATCH_SIZE
  /\ \A j, k \in 1..Len(flChunks) :
       (flStatus[k] # "idle" /\ BatchNo(j) < BatchNo(k)) => flStatus[j] = "done"
  /\ flPc = "done" =>
       /\ \A k \in 1..Len(flChunks) : flStatus[k] = "done"
       /\ flEmbedded = collectEmbedded(flChunks, flVectors)

\* a call over two batches has returned after some call settled before an
\* earlier call of its batch, with one call failed
C17_Witness ==
  /\ flPc = "done"
  /\ flReordered
  /\ Len(flChunks) > EMBED_BATCH_SIZE
  /\ \E k \in 1..Len(flChunks) : flVectors[k] = NullVector
  /\ Len(flEmbedded) = Len(flChunks) - 1

\* the records of an index, as a set
Records(idx) == {idx[k] : k \in 1..Len(idx)}

\* the record collection.add makes of position j of its arrays
RecordAt(a, j) ==
  [id |-> a.ids[j], embedding |-> a.embeddings[j],
   document |-> a.documents[j], metadata |-> a.metadatas[j]]

\* this step is the index write of call p
WritesIndex(p) ==
  call[p].pc = "save" /\ Len(call'[p].adds) = Len(call[p].adds) + 1

\* C18: ingestion calls interleave without a lock and every index write
\* leaves under each identity it carries the record it carries (so the
\* record finally stored under an identity two calls write is that of the
\* later write) and leaves the records of all other identities as they
\* were (so calls with disjoint identities end, in either order, with the
\* union of their records).
C18_LastWriteWins ==
  [][\A p \in Procs :
       WritesIndex(p) =>
         LET a == call'[p].adds[Len(call'[p].adds)]
         IN  /\ \A j \in 1..Len(a.ids) : RecordAt(a, j) \in Records(index')
             /\ \A rec \in Records(index) :
                  (\A j \in 1..Len(a.ids) : a.ids[j] # rec.id) =>
                    rec \in Records(index')
             /\ \A r1, r2 \in Records(index') : r1.id = r2.id => r1 = r2]_vars

\* the chunk parameters POST /rechunk is asked to use: the supplied value,
\* the configured one when the field is absent
AskedLength(body, e) ==
  IF body.chunkLength # NaN THEN body.chunkLength ELSE CHUNK_LENGTH(e)
AskedOverlap(body, e) ==
  IF body.chunkOverlap # NaN THEN body.chunkOverlap ELSE CHUNK_OVERLAP(e)

\* C19: POST /rechunk chunks with the chunkLength and chunkOverlap of the
\* request body, each replaced by the configured value only when absent,
\* and its 200 response reports those values; a supplied chunkOverlap of 0
\* is used and reported as 0.
C19_SuppliedParametersUsed ==
  \A p \in Procs :
    LET c == call[p]
    IN  c.kind = "rechunk" =>
          /\ c.size = AskedLength(c.body, env)
          /\ c.overlap = AskedOverlap(c.body, env)
          /\ (c.pc \in {"embed", "save"} \/ (c.pc = "done" /\ c.res.status = 200)) =>
               c.chunks = chunkAllDocuments(c.docs, AskedLength(c.body, env),
                                            AskedOverlap(c.body, env))

\* the upload of slot p got past validation and was answered with an error
ErrorUpload(p) ==
  /\ call[p].kind = "upload"
  /\ call[p].pc = "done"
  /\ call[p].res.status \in {400, 500}
  /\ call[p].res.text # "category and file are required"

\* where the upload of slot p stored its file
StoredAt(p) == <<call[p].body.category, call[p].body.file.originalname>>

\* the file of the upload of slot p is in the corpus as that upload left it
StillStored(p) ==
  /\ StoredAt(p) \in DOMAIN corpus
  /\ corpus[StoredAt(p)] = call[p].body.file.data

\* the file of the upload of slot p is one of the documents docs
LoadedIn(p, docs) ==
  \E d \in 1..Len(docs) :
    /\ docs[d].filename = call[p].body.file.originalname
    /\ docs[d].category = call[p].body.category

\* this step is the corpus load of the rechunk of slot q
RechunkLoads(q) ==
  /\ call[q].kind = "rechunk"
  /\ call[q].pc = "rechunk_load"
  /\ call'[q].pc # "rechunk_load"

\* C20 as stated: an upload answered with an error after validation made no
\* index write, its file is in the corpus, the loader returns it, and the
\* corpus load of every later rechunk has it among its documents.
C20_FailedUploadReloaded ==
  /\ [](\A p \in Procs :
          ErrorUpload(p) =>
            /\ call[p].adds = << >>
            /\ StoredAt(p) \in DOMAIN corpus
            /\ StillStored(p) => LoadedIn(p, loadAllDocumentsWithCategory(corpus)))
  /\ [][\A p, q \in Procs :
          (ErrorUpload(p) /\ StillStored(p) /\ RechunkLoads(q)) =>
            LoadedIn(p, call'[q].docs)]_vars

\* the text readFileContent returns now for the file of the upload of
\* slot p
StoredText(p) ==
  readFileContent(call[p].body.file.originalname, corpus[StoredAt(p)])

\* docs has the file of the upload of slot p exactly when its stored text
\* is not blank, and has it when the upload was answered 500 and the stored
\* text is the text the upload read
LoadedIfText(p, docs) ==
  /\ LoadedIn(p, docs) <=> Trim(StoredText(p)) # << >>
  /\ (call[p].res.status = 500 /\ StoredText(p) = call[p].docs[1].content) =>
       LoadedIn(p, docs)

\* C20, amended: an upload answered with an error after validation made no
\* index write and its file is in the corpus; the loader, and the corpus
\* load of every later rechunk, return the file exactly when the text now
\* stored in it is not blank: they return it after a 500 if the file still
\* holds the text the upload read, and skip a file without text (the 400
\* answers).
C20_FailedUploadKept ==
  /\ [](\A p \in Procs :
          ErrorUpload(p) =>
            /\ call[p].adds = << >>
            /\ StoredAt(p) \in DOMAIN corpus
            /\ LoadedIfText(p, loadAllDocumentsWithCategory(corpus)))
  /\ [][\A p, q \in Procs :
          (ErrorUpload(p) /\ RechunkLoads(q)) =>
            LoadedIfText(p, call'[q].docs)]_vars

\* a rechunk has loaded the file of an upload answered 500, which wrote
\* nothing
C20_Witness ==
  \E p, q \in Procs :
    /\ ErrorUpload(p)
    /\ call[p].res.status = 500
    /\ StillStored(p)
    /\ call[q].kind = "rechunk"
    /\ call[q].pc # "rechunk_load"
    /\ LoadedIn(p, call[q].docs)
    /\ index = << >>

====
